---------------------------- MODULE Spec2Model ----------------------------
(***************************************************************************)
(* A model of the apply_to_state utility of realm-core                     *)
(* (src/realm/sync/apply_to_state_command.cpp): the header scanner, the    *)
(* body framer, the message parser and the driver loop of main().          *)
(*                                                                         *)
(* Memory is a sequence of one-character strings.  A StringView is a       *)
(* record [pos, len]: pos is the 1-based index of data() in the memory it  *)
(* points into, len is size().  size() is a std::size_t; a negative len    *)
(* stands for the wrapped value 2^64 + len, so that additions and          *)
(* subtractions of small numbers are exact modulo 2^64.                    *)
(***************************************************************************)
EXTENDS Integers, Sequences, FiniteSets, TLC

SP == " "
LF == "\n"
NUL == "NUL"
PLUS == "+"
MINUS == "-"

DigitChars == <<"0", "1", "2", "3", "4", "5", "6", "7", "8", "9">>

IsDigit(c) == \E i \in 1..10 : DigitChars[i] = c

DigitVal(c) == (CHOOSE i \in 1..10 : DigitChars[i] = c) - 1

\* isspace() over the bytes the model uses
IsSpace(c) == c \in {SP, LF}

(***************************************************************************)
(* StringView                                                              *)
(***************************************************************************)
View(p, l) == [pos |-> p, len |-> l]

\* a < b on std::size_t values in the signed representation
SizeLess(a, b) ==
    IF a >= 0 /\ b >= 0 THEN a < b
    ELSE IF a >= 0 THEN TRUE
    ELSE IF b >= 0 THEN FALSE
    ELSE a < b

ViewEmpty(sv) == sv.len = 0

\* sv.substr(k): throws std::out_of_range when k > size()
SubstrThrows(sv, k) == SizeLess(sv.len, k)

Substr(sv, k) == View(sv.pos + k, sv.len - k)

\* sv.substr(0, n): the count is clamped to size()
SubstrN(sv, n) == View(sv.pos, IF SizeLess(sv.len, n) THEN sv.len ELSE n)

\* a byte can be read only inside the mapped memory
Mapped(m, i) == i >= 1 /\ i <= Len(m)

(***************************************************************************)
(* std::strtoimax(sv.data(), &end_ptr, 10): skips white space, takes an    *)
(* optional sign and the longest run of digits.  It knows nothing of the   *)
(* view's length and stops only at a byte that is not part of a number.    *)
(* Result: c = end_ptr - sv.data() (0 when no digits were found),          *)
(* val = the value, segv = the scan ran off the mapped memory.             *)
(***************************************************************************)
RECURSIVE SkipSpace(_, _)
SkipSpace(m, i) ==
    IF Mapped(m, i) /\ IsSpace(m[i]) THEN SkipSpace(m, i + 1) ELSE i

\* The integers of the model are narrower than those of the program:
\* intmax_t has 32 bits and int has 16.  What the code relies on is kept: int
\* is narrower than intmax_t, and the unsigned 64-bit type holds every
\* intmax_t that is not negative.
INTMAX_MAX == 2147483647

INT_MAX == 32767

\* the digits from i on; a value above INTMAX_MAX is clamped and sets ERANGE
RECURSIVE ScanDigits(_, _, _, _)
ScanDigits(m, i, acc, erange) ==
    IF Mapped(m, i) /\ IsDigit(m[i])
    THEN IF erange \/ acc > (INTMAX_MAX - DigitVal(m[i])) \div 10
         THEN ScanDigits(m, i + 1, INTMAX_MAX, TRUE)
         ELSE ScanDigits(m, i + 1, acc * 10 + DigitVal(m[i]), FALSE)
    ELSE [end |-> i, val |-> acc, erange |-> erange]

\* p = sv.data(), b = the first byte behind the sign, d = the digits found
strtoimax_result(m, p, neg, b, d) ==
    IF ~Mapped(m, d.end) THEN [c |-> 0, val |-> 0, segv |-> TRUE, erange |-> FALSE]
    ELSE IF d.end = b THEN [c |-> 0, val |-> 0, segv |-> FALSE, erange |-> FALSE]
    ELSE [c |-> d.end - p,
          val |-> IF ~neg THEN d.val ELSE IF d.erange THEN 0 - INTMAX_MAX - 1 ELSE 0 - d.val,
          segv |-> FALSE, erange |-> d.erange]

strtoimax_digits(m, p, neg, b) == strtoimax_result(m, p, neg, b, ScanDigits(m, b, 0, FALSE))

\* a = the first byte that is not white space
strtoimax_sign(m, p, a) ==
    strtoimax_digits(m, p, Mapped(m, a) /\ m[a] = MINUS,
                     IF Mapped(m, a) /\ m[a] \in {PLUS, MINUS} THEN a + 1 ELSE a)

strtoimax(m, p) == strtoimax_sign(m, p, SkipSpace(m, p))

(***************************************************************************)
(* Integer field types of the header lines: "u" an unsigned 64-bit field,  *)
(* "s" a signed 64-bit field, "i" an int.                                  *)
(***************************************************************************)
\* int_cast_with_overflow_detect(big_val, cur_arg), as main's caller uses it:
\* the header value is rejected when the function reports no fit
int_cast_with_overflow_detect(ty, v) ==
    IF ty = "u" THEN v >= 0
    ELSE IF ty = "i" THEN v >= 0 - INT_MAX - 1 /\ v <= INT_MAX
    ELSE TRUE

\* parse_header_value for integral T, r = what strtoimax returned
parse_header_value_cast_unchecked(sv, ty, r) ==
    IF r.segv THEN [st |-> "segv", sv |-> View(0, 0), val |-> 0]
    ELSE [st |-> "ok", sv |-> View(sv.pos + r.c, (sv.len - 1) - r.c), val |-> r.val]

parse_header_value_cast(sv, ty, r) ==
    IF r.segv THEN [st |-> "segv", sv |-> View(0, 0), val |-> 0]
    ELSE IF ~int_cast_with_overflow_detect(ty, r.val)
    THEN [st |-> "fail", sv |-> View(0, 0), val |-> 0]
    \* if (end_ptr == nullptr || errno == ERANGE)
    ELSE IF r.erange THEN [st |-> "fail", sv |-> View(0, 0), val |-> 0]
    ELSE [st |-> "ok",
          \* remaining_length = &sv.back() - end_ptr
          sv |-> View(sv.pos + r.c, (sv.len - 1) - r.c),
          val |-> r.val]

parse_header_value(m, sv, ty) == parse_header_value_cast(sv, ty, strtoimax(m, sv.pos))

\* parse_header_value for a StringView field: the token up to the next space
RECURSIVE FindSpace(_, _, _)
FindSpace(m, sv, i) ==
    IF i - sv.pos = sv.len THEN [st |-> "fail", at |-> i]
    ELSE IF ~Mapped(m, i) THEN [st |-> "segv", at |-> i]
    ELSE IF m[i] = SP THEN [st |-> "ok", at |-> i]
    ELSE FindSpace(m, sv, i + 1)

\* f = what std::find_if returned
parse_header_value_token(m, sv, f) ==
    IF f.st # "ok" THEN [st |-> f.st, sv |-> View(0, 0), val |-> <<>>]
    ELSE [st |-> "ok", sv |-> Substr(sv, f.at - sv.pos), val |-> SubSeq(m, sv.pos, f.at - 1)]

parse_header_value_str(m, sv) == parse_header_value_token(m, sv, FindSpace(m, sv, sv.pos))

(***************************************************************************)
(* parse_header_element / parse_header_line: tys lists the types of the    *)
(* fields still to read, vals the values assigned so far.  A field is      *)
(* followed by a space (more fields, or none: the overload without fields  *)
(* returns the view as it is) or by end_delim (the line ends there,        *)
(* whatever fields are left).                                              *)
(***************************************************************************)
HdrFail(st, vals) == [st |-> st, sv |-> View(0, 0), vals |-> vals]

RECURSIVE parse_header_element(_, _, _, _, _)
RECURSIVE parse_header_delim(_, _, _, _, _)

\* the part of parse_header_element behind parse_header_value, r = its result
parse_header_delim(m, end_delim, tys, vals, r) ==
    IF r.st # "ok" THEN HdrFail(r.st, vals)
    ELSE IF ~Mapped(m, r.sv.pos) THEN HdrFail("segv", vals)
    ELSE IF m[r.sv.pos] = SP
    THEN IF SubstrThrows(r.sv, 1) THEN HdrFail("out_of_range", Append(vals, r.val))
         ELSE parse_header_element(m, Substr(r.sv, 1), end_delim, Tail(tys), Append(vals, r.val))
    ELSE IF m[r.sv.pos] = end_delim
    THEN IF SubstrThrows(r.sv, 1) THEN HdrFail("out_of_range", Append(vals, r.val))
         ELSE [st |-> "ok", sv |-> Substr(r.sv, 1), vals |-> Append(vals, r.val)]
    ELSE HdrFail("fail", Append(vals, r.val))

parse_header_element(m, sv, end_delim, tys, vals) ==
    IF tys = <<>> THEN [st |-> "ok", sv |-> sv, vals |-> vals]
    ELSE IF ViewEmpty(sv) THEN HdrFail("fail", vals)
    ELSE parse_header_delim(m, end_delim, tys, vals, parse_header_value(m, sv, Head(tys)))

parse_header_line(m, sv, end_delim, tys) == parse_header_element(m, sv, end_delim, tys, <<>>)

\* parse_header_element(sv, ' ', message_type) of parse_message, r = the token
parse_message_type_delim(r) ==
    IF r.st # "ok" THEN r
    ELSE IF SubstrThrows(r.sv, 1) THEN [st |-> "out_of_range", sv |-> View(0, 0), val |-> <<>>]
    ELSE [st |-> "ok", sv |-> Substr(r.sv, 1), val |-> r.val]

parse_message_type(m, sv) ==
    IF ViewEmpty(sv) THEN [st |-> "fail", sv |-> View(0, 0), val |-> <<>>]
    ELSE parse_message_type_delim(parse_header_value_str(m, sv))

\* the value of field i of a header line; u is what an unassigned variable holds
Field(vals, i, u) == IF i <= Len(vals) THEN vals[i] ELSE u

(***************************************************************************)
(* realm::_impl::compression::decompress.  The compressed form is a run    *)
(* length code: pairs of a count "1".."9" and a byte.  It fails unless the *)
(* input expands to exactly uncompressed_size bytes.                       *)
(***************************************************************************)
RECURSIVE Repeat(_, _)
Repeat(c, n) == IF n = 0 THEN <<>> ELSE <<c>> \o Repeat(c, n - 1)

RECURSIVE Expand(_, _)
Expand(src, out) ==
    IF Len(src) = 0 THEN [ok |-> TRUE, out |-> out]
    ELSE IF Len(src) = 1 \/ ~IsDigit(src[1]) \/ src[1] = "0" THEN [ok |-> FALSE, out |-> <<>>]
    ELSE Expand(SubSeq(src, 3, Len(src)), out \o Repeat(src[2], DigitVal(src[1])))

decompress_check(e, uncompressed_size) ==
    IF e.ok /\ Len(e.out) = uncompressed_size
    THEN [ec |-> FALSE, out |-> e.out]
    ELSE [ec |-> TRUE, out |-> <<>>]

decompress(src, uncompressed_size) == decompress_check(Expand(src, <<>>), uncompressed_size)

(***************************************************************************)
(* MessageBody::parse.  The body view points into the input memory         *)
(* (bodybuf = "input") or into uncompressed_body_buffer (bodybuf =         *)
(* "buffer"); heap is what lies behind an allocated buffer in memory.      *)
(***************************************************************************)
\* ret.remaining = sv.substr(compressed_body_size)
CompressedRemaining_uncompressed_size(sv, compressed_body_size, uncompressed_body_size) ==
    Substr(sv, uncompressed_body_size)

CompressedRemaining(sv, compressed_body_size, uncompressed_body_size) ==
    Substr(sv, compressed_body_size)

NoBody == [st |-> "fail", bodybuf |-> "none", body_view |-> View(0, 0),
           remaining |-> View(0, 0), uncompressed_body_buffer |-> <<>>]

\* the compressed branch behind the call of decompress, d = its result
MessageBody_decompressed(sv, compressed_body_size, uncompressed_body_size, d) ==
    IF d.ec THEN NoBody
    ELSE [st |-> "ok", bodybuf |-> "buffer",
          body_view |-> View(1, uncompressed_body_size),
          remaining |-> CompressedRemaining(sv, compressed_body_size, uncompressed_body_size),
          uncompressed_body_buffer |-> d.out]

MessageBody_parse(m, sv, compressed_body_size, uncompressed_body_size, is_body_compressed) ==
    IF is_body_compressed
    THEN IF SizeLess(sv.len, compressed_body_size) THEN NoBody
         ELSE IF compressed_body_size > 0 /\ ~Mapped(m, sv.pos + compressed_body_size - 1)
         THEN [NoBody EXCEPT !.st = "segv"]
         ELSE MessageBody_decompressed(
                  sv, compressed_body_size, uncompressed_body_size,
                  decompress(SubSeq(m, sv.pos, sv.pos + compressed_body_size - 1),
                             uncompressed_body_size))
    ELSE IF SizeLess(sv.len, uncompressed_body_size) THEN NoBody
         ELSE [st |-> "ok", bodybuf |-> "input",
               body_view |-> SubstrN(sv, uncompressed_body_size),
               remaining |-> Substr(sv, uncompressed_body_size),
               uncompressed_body_buffer |-> <<>>]

\* the memory a body view points into
BodyMem(m, b, heap) == IF b.bodybuf = "buffer" THEN b.uncompressed_body_buffer \o heap ELSE m

(***************************************************************************)
(* sync::parse_changeset: the Changeset Decoder.  A payload holding the    *)
(* byte BAD violates the changeset schema; the instructions of a decoded   *)
(* changeset are its bytes.                                                *)
(***************************************************************************)
BAD == "!"

parse_changeset_throws(payload) == \E i \in 1..Len(payload) : payload[i] = BAD

(***************************************************************************)
(* Messages.  A parse result is [st, msg, rest]: st is "ok" (a message and *)
(* the remaining view), "fail" (std::nullopt), or how the call ended       *)
(* otherwise: "segv" (a read outside the mapped memory), "out_of_range"    *)
(* (substr threw), "decode_error" (parse_changeset threw).  On a result    *)
(* other than "ok", msg shows how far the parse got.                       *)
(***************************************************************************)
IDENT == <<"i", "d", "e", "n", "t">>
DOWNLOAD == <<"d", "o", "w", "n", "l", "o", "a", "d">>
UPLOAD == <<"u", "p", "l", "o", "a", "d">>

NoMsg == [type |-> "none"]

IdentTypes == <<"u", "u", "u">>
DownloadTypes == <<"u", "u", "u", "u", "u", "u", "u", "u", "i", "u", "u">>
UploadTypes == <<"u", "i", "u", "u", "u", "u", "u">>
RemoteChangesetTypes == <<"u", "u", "u", "u", "u", "u">>
LocalChangesetTypes == <<"u", "u", "u", "u", "u">>


\* h = the header line
ServerIdentMessage_ret(h, u) ==
    [type |-> "ident",
     session_ident |-> Field(h.vals, 1, u),
     ident |-> Field(h.vals, 2, u),
     salt |-> Field(h.vals, 3, u),
     nset |-> Len(h.vals)]

ServerIdentMessage_header(h, u) ==
    IF h.st # "ok" THEN [st |-> h.st, msg |-> NoMsg, rest |-> View(0, 0)]
    ELSE [st |-> "ok", msg |-> ServerIdentMessage_ret(h, u), rest |-> h.sv]

ServerIdentMessage_parse(m, sv, u) ==
    ServerIdentMessage_header(parse_header_line(m, sv, LF, IdentTypes), u)

\* ret.changesets.push_back(cur_changeset)
push_front(changesets, c) == <<c>> \o changesets

push_back(changesets, c) == Append(changesets, c)

\* Changeset cur_changeset of DownloadMessage::parse, h = the record's header
RemoteChangeset(bm, h) ==
    [remote_version |-> h.vals[1],
     last_integrated_local_version |-> h.vals[2],
     origin_timestamp |-> h.vals[3],
     origin_file_ident |-> h.vals[4],
     original_changeset_size |-> h.vals[5],
     at |-> h.sv.pos,
     data |-> SubSeq(bm, h.sv.pos, h.sv.pos + h.vals[6] - 1)]

RECURSIVE DownloadBody(_, _, _)
RECURSIVE DownloadBody_changeset(_, _, _, _)
RECURSIVE DownloadBody_record(_, _, _)

\* the loop body behind the size check, cur_changeset = the record read
DownloadBody_changeset(bm, acc, h, cur_changeset) ==
    IF parse_changeset_throws(cur_changeset.data)
    THEN [st |-> "decode_error", changesets |-> acc]
    ELSE DownloadBody(bm, Substr(h.sv, h.vals[6]), push_back(acc, cur_changeset))

\* the loop body behind parse_header_line, h = its result
DownloadBody_record_keeps_earlier(bm, acc, h) ==
    IF h.st # "ok" \/ SizeLess(h.sv.len, h.vals[6])
    THEN [st |-> "ok", changesets |-> acc]
    ELSE [st |-> "ok", changesets |-> push_back(acc, RemoteChangeset(bm, h))]

DownloadBody_record(bm, acc, h) ==
    IF h.st \in {"segv", "out_of_range"} THEN [st |-> h.st, changesets |-> acc]
    ELSE IF h.st # "ok" \/ SizeLess(h.sv.len, h.vals[6])
    THEN [st |-> "fail", changesets |-> acc]
    ELSE IF h.vals[6] > 0 /\ ~Mapped(bm, h.sv.pos + h.vals[6] - 1)
    THEN [st |-> "segv", changesets |-> acc]
    ELSE DownloadBody_changeset(bm, acc, h, RemoteChangeset(bm, h))

\* the while loop of DownloadMessage::parse over the body view
DownloadBody(bm, body_view, acc) ==
    IF ViewEmpty(body_view) THEN [st |-> "ok", changesets |-> acc]
    ELSE DownloadBody_record(bm, acc, parse_header_line(bm, body_view, SP, RemoteChangesetTypes))

\* ret.uncompressed_body_buffer = std::move(maybe_message_body->uncompressed_body_buffer):
\* the message takes over the decompression buffer of the body, b = the body
uncompressed_body_buffer_not_moved(b) == <<>>

uncompressed_body_buffer_moved(b) == b.uncompressed_body_buffer

\* DownloadMessage ret: h = the header line, b = the body, cs = the changesets
DownloadMessage_ret(h, b, u, cs) ==
    [type |-> "download",
     session_ident |-> Field(h.vals, 1, u),
     progress |-> [download |-> [server_version |-> Field(h.vals, 2, u),
                                 last_integrated_client_version |-> Field(h.vals, 3, u)],
                   upload |-> [client_version |-> Field(h.vals, 6, u),
                               last_integrated_server_version |-> Field(h.vals, 7, u)]],
     latest_server_version |-> [version |-> Field(h.vals, 4, u), salt |-> Field(h.vals, 5, u)],
     downloadable_bytes |-> Field(h.vals, 8, u),
     nset |-> Len(h.vals),
     is_body_compressed |-> Field(h.vals, 9, u),
     uncompressed_body_size |-> Field(h.vals, 10, u),
     compressed_body_size |-> Field(h.vals, 11, u),
     hdr_end |-> h.sv,
     bodybuf |-> b.bodybuf,
     body_view |-> b.body_view,
     uncompressed_body_buffer |-> uncompressed_body_buffer_moved(b),
     changesets |-> cs]

\* behind the while loop, c = its result
DownloadMessage_changesets(h, b, u, c) ==
    [st |-> c.st, msg |-> DownloadMessage_ret(h, b, u, c.changesets),
     rest |-> IF c.st = "ok" THEN b.remaining ELSE View(0, 0)]

\* behind MessageBody::parse, b = its result
DownloadMessage_body(m, u, heap, h, b) ==
    IF b.st # "ok"
    THEN [st |-> b.st, msg |-> DownloadMessage_ret(h, b, u, <<>>), rest |-> View(0, 0)]
    ELSE DownloadMessage_changesets(h, b, u, DownloadBody(BodyMem(m, b, heap), b.body_view, <<>>))

\* behind parse_header_line, h = its result
DownloadMessage_header(m, u, heap, h) ==
    IF h.st # "ok" THEN [st |-> h.st, msg |-> NoMsg, rest |-> View(0, 0)]
    ELSE DownloadMessage_body(m, u, heap, h,
             MessageBody_parse(m, h.sv, Field(h.vals, 11, u), Field(h.vals, 10, u),
                               Field(h.vals, 9, u) # 0))

DownloadMessage_parse(m, sv, u, heap) ==
    DownloadMessage_header(m, u, heap, parse_header_line(m, sv, LF, DownloadTypes))

\* Changeset cur_changeset of UploadMessage::parse, h = the record's header
LocalChangeset(bm, h) ==
    [version |-> h.vals[1],
     last_integrated_remote_version |-> h.vals[2],
     origin_timestamp |-> h.vals[3],
     origin_file_ident |-> h.vals[4],
     at |-> h.sv.pos,
     instructions |-> SubSeq(bm, h.sv.pos, h.sv.pos + h.vals[5] - 1)]

RECURSIVE UploadBody(_, _, _)
RECURSIVE UploadBody_changeset(_, _, _, _)
RECURSIVE UploadBody_record(_, _, _)

\* the loop body behind the size check, cur_changeset = the record read
UploadBody_changeset(bm, acc, h, cur_changeset) ==
    IF parse_changeset_throws(cur_changeset.instructions)
    THEN [st |-> "decode_error", changesets |-> acc]
    ELSE UploadBody(bm, Substr(h.sv, h.vals[5]), push_back(acc, cur_changeset))

\* the loop body behind parse_header_line, h = its result
UploadBody_record(bm, acc, h) ==
    IF h.st \in {"segv", "out_of_range"} THEN [st |-> h.st, changesets |-> acc]
    ELSE IF h.st # "ok" \/ SizeLess(h.sv.len, h.vals[5])
    THEN [st |-> "fail", changesets |-> acc]
    ELSE IF h.vals[5] > 0 /\ ~Mapped(bm, h.sv.pos + h.vals[5] - 1)
    THEN [st |-> "segv", changesets |-> acc]
    ELSE UploadBody_changeset(bm, acc, h, LocalChangeset(bm, h))

\* the while loop of UploadMessage::parse over the body view
UploadBody(bm, body_view, acc) ==
    IF ViewEmpty(body_view) THEN [st |-> "ok", changesets |-> acc]
    ELSE UploadBody_record(bm, acc, parse_header_line(bm, body_view, SP, LocalChangesetTypes))

\* UploadMessage ret: h = the header line, b = the body, cs = the changesets
UploadMessage_ret(h, b, u, cs) ==
    [type |-> "upload",
     session_ident |-> Field(h.vals, 1, u),
     upload_progress |-> [client_version |-> Field(h.vals, 5, u),
                          last_integrated_server_version |-> Field(h.vals, 6, u)],
     locked_server_version |-> Field(h.vals, 7, u),
     nset |-> Len(h.vals),
     is_body_compressed |-> Field(h.vals, 2, u),
     uncompressed_body_size |-> Field(h.vals, 3, u),
     compressed_body_size |-> Field(h.vals, 4, u),
     hdr_end |-> h.sv,
     bodybuf |-> b.bodybuf,
     body_view |-> b.body_view,
     uncompressed_body_buffer |-> b.uncompressed_body_buffer,
     changesets |-> cs]

\* behind the while loop, c = its result
UploadMessage_changesets(h, b, u, c) ==
    [st |-> c.st, msg |-> UploadMessage_ret(h, b, u, c.changesets),
     rest |-> IF c.st = "ok" THEN b.remaining ELSE View(0, 0)]

\* behind MessageBody::parse, b = its result
UploadMessage_body(m, u, heap, h, b) ==
    IF b.st # "ok"
    THEN [st |-> b.st, msg |-> UploadMessage_ret(h, b, u, <<>>), rest |-> View(0, 0)]
    ELSE UploadMessage_changesets(h, b, u, UploadBody(BodyMem(m, b, heap), b.body_view, <<>>))

\* behind parse_header_line, h = its result
UploadMessage_header(m, u, heap, h) ==
    IF h.st # "ok" THEN [st |-> h.st, msg |-> NoMsg, rest |-> View(0, 0)]
    ELSE UploadMessage_body(m, u, heap, h,
             MessageBody_parse(m, h.sv, Field(h.vals, 4, u), Field(h.vals, 3, u),
                               Field(h.vals, 2, u) # 0))

UploadMessage_parse(m, sv, u, heap) ==
    UploadMessage_header(m, u, heap, parse_header_line(m, sv, LF, UploadTypes))

\* behind the message type, t = the token read
parse_message_dispatch_default_ident(m, u, heap, t) ==
    IF t.st # "ok" THEN [st |-> t.st, msg |-> NoMsg, rest |-> View(0, 0)]
    ELSE IF t.val = DOWNLOAD THEN DownloadMessage_parse(m, t.sv, u, heap)
    ELSE IF t.val = UPLOAD THEN UploadMessage_parse(m, t.sv, u, heap)
    ELSE ServerIdentMessage_parse(m, t.sv, u)

parse_message_dispatch(m, u, heap, t) ==
    IF t.st # "ok" THEN [st |-> t.st, msg |-> NoMsg, rest |-> View(0, 0)]
    ELSE IF t.val = DOWNLOAD THEN DownloadMessage_parse(m, t.sv, u, heap)
    ELSE IF t.val = UPLOAD THEN UploadMessage_parse(m, t.sv, u, heap)
    ELSE IF t.val = IDENT THEN ServerIdentMessage_parse(m, t.sv, u)
    ELSE [st |-> "fail", msg |-> NoMsg, rest |-> View(0, 0)]

parse_message(m, sv, u, heap) == parse_message_dispatch(m, u, heap, parse_message_type(m, sv))

(***************************************************************************)
(* The wire format of section 6 of the specification, as an encoder: the   *)
(* input files of the model are built with it.                             *)
(***************************************************************************)
RECURSIVE Dec(_)
Dec(n) == IF n < 10 THEN <<DigitChars[n + 1]>> ELSE Dec(n \div 10) \o <<DigitChars[(n % 10) + 1]>>

RECURSIVE Join(_)
Join(fs) ==
    IF Len(fs) = 0 THEN <<>>
    ELSE IF Len(fs) = 1 THEN Dec(fs[1])
    ELSE Dec(fs[1]) \o <<SP>> \o Join(Tail(fs))

RECURSIVE RunLen(_, _)
RunLen(b, i) == IF i < Len(b) /\ b[i + 1] = b[i] THEN 1 + RunLen(b, i + 1) ELSE 1

RECURSIVE Compress(_)
Compress(b) ==
    IF Len(b) = 0 THEN <<>>
    ELSE LET r == RunLen(b, 1)
             n == IF r > 9 THEN 9 ELSE r
         IN  <<DigitChars[n + 1], b[1]>> \o Compress(SubSeq(b, n + 1, Len(b)))

\* an abstract remote changeset and an abstract local changeset
Remote(rv, data) ==
    [remote_version |-> rv, last_integrated_local_version |-> 0, origin_timestamp |-> 17,
     origin_file_ident |-> 1, original_changeset_size |-> Len(data), data |-> data]

Local(v, ins) ==
    [version |-> v, last_integrated_remote_version |-> 0, origin_timestamp |-> 17,
     origin_file_ident |-> 1, instructions |-> ins]

EncRemote(c) ==
    Join(<<c.remote_version, c.last_integrated_local_version, c.origin_timestamp,
           c.origin_file_ident, c.original_changeset_size, Len(c.data)>>) \o <<SP>> \o c.data

EncLocal(c) ==
    Join(<<c.version, c.last_integrated_remote_version, c.origin_timestamp,
           c.origin_file_ident, Len(c.instructions)>>) \o <<SP>> \o c.instructions

RECURSIVE EncRemotes(_)
EncRemotes(cs) == IF Len(cs) = 0 THEN <<>> ELSE EncRemote(Head(cs)) \o EncRemotes(Tail(cs))

RECURSIVE EncLocals(_)
EncLocals(cs) == IF Len(cs) = 0 THEN <<>> ELSE EncLocal(Head(cs)) \o EncLocals(Tail(cs))

\* abstract messages
Ident(s, i, salt) == [type |-> "ident", session_ident |-> s, ident |-> i, salt |-> salt]

Download(s, dsv, compressed, cs) ==
    [type |-> "download", session_ident |-> s,
     progress |-> [download |-> [server_version |-> dsv, last_integrated_client_version |-> 0],
                   upload |-> [client_version |-> 0, last_integrated_server_version |-> 0]],
     latest_server_version |-> [version |-> dsv, salt |-> 9],
     downloadable_bytes |-> 0, compressed |-> compressed, changesets |-> cs]

Upload(s, ucv, compressed, cs) ==
    [type |-> "upload", session_ident |-> s,
     upload_progress |-> [client_version |-> ucv, last_integrated_server_version |-> 4],
     locked_server_version |-> 4, compressed |-> compressed, changesets |-> cs]

\* the body of a message: its records followed by pad (no pad in a valid message)
BodyOf(msg, pad) ==
    (IF msg.type = "download" THEN EncRemotes(msg.changesets) ELSE EncLocals(msg.changesets)) \o pad

\* the header line of a download or upload message
EncHeader(msg, uncompressed_body_size, compressed_body_size) ==
    IF msg.type = "download"
    THEN DOWNLOAD \o <<SP>>
         \o Join(<<msg.session_ident, msg.progress.download.server_version,
                   msg.progress.download.last_integrated_client_version,
                   msg.latest_server_version.version, msg.latest_server_version.salt,
                   msg.progress.upload.client_version,
                   msg.progress.upload.last_integrated_server_version,
                   msg.downloadable_bytes, msg.compressed, uncompressed_body_size,
                   compressed_body_size>>)
         \o <<LF>>
    ELSE UPLOAD \o <<SP>>
         \o Join(<<msg.session_ident, msg.compressed, uncompressed_body_size,
                   compressed_body_size,
                   msg.upload_progress.client_version,
                   msg.upload_progress.last_integrated_server_version,
                   msg.locked_server_version>>)
         \o <<LF>>

\* body = the body of the message, wire = the bytes sent for it
EncWire(msg, body, wire) ==
    EncHeader(msg, Len(body), IF msg.compressed = 1 THEN Len(wire) ELSE 0) \o wire

EncBody(msg, body) == EncWire(msg, body, IF msg.compressed = 1 THEN Compress(body) ELSE body)

EncPadded(msg, pad) ==
    IF msg.type = "ident"
    THEN IDENT \o <<SP>> \o Join(<<msg.session_ident, msg.ident, msg.salt>>) \o <<LF>>
    ELSE EncBody(msg, BodyOf(msg, pad))

\* the on-wire form of a message
Enc(msg) == EncPadded(msg, <<>>)

RECURSIVE EncStream(_)
EncStream(ms) == IF Len(ms) = 0 THEN <<>> ELSE Enc(Head(ms)) \o EncStream(Tail(ms))

(***************************************************************************)
(* Input files.  kind "valid": the bytes are the encoding of msgs and      *)
(* nothing else.  kind "padded": the encoding of msgs with filler bytes    *)
(* behind the records of each body and behind the last message.  kind      *)
(* "malformed": the first message has the named defect.                    *)
(***************************************************************************)
FILL == "#"

NFields(msg) == IF msg.type = "ident" THEN 3 ELSE IF msg.type = "download" THEN 11 ELSE 7

BodyPad(msg) ==
    IF msg.type = "ident" THEN <<>>
    ELSE Repeat(FILL, Len(msg.changesets) * (IF msg.type = "download" THEN 6 ELSE 5))

RECURSIVE EncPaddedStream(_)
EncPaddedStream(ms) ==
    IF Len(ms) = 0 THEN <<>>
    ELSE EncPadded(Head(ms), BodyPad(Head(ms))) \o EncPaddedStream(Tail(ms))

RECURSIVE SumFields(_)
SumFields(ms) == IF Len(ms) = 0 THEN 0 ELSE NFields(Head(ms)) + SumFields(Tail(ms))

Valid(ms) == [kind |-> "valid", msgs |-> ms, defect |-> "none", bytes |-> EncStream(ms)]

Padded(ms) ==
    [kind |-> "padded", msgs |-> ms, defect |-> "none",
     bytes |-> EncPaddedStream(ms) \o Repeat(FILL, SumFields(ms))]

Malformed(defect, bytes) == [kind |-> "malformed", msgs |-> <<>>, defect |-> defect, bytes |-> bytes]

RECURSIVE JoinRaw(_)
JoinRaw(fs) ==
    IF Len(fs) = 0 THEN <<>>
    ELSE IF Len(fs) = 1 THEN fs[1]
    ELSE fs[1] \o <<SP>> \o JoinRaw(Tail(fs))

Zeros(n) == [i \in 1..n |-> <<"0">>]

\* the changeset of scenario S3: "5 0 1700000000 1 7 7 XXXXXXX"
S3Changeset ==
    [remote_version |-> 5, last_integrated_local_version |-> 0, origin_timestamp |-> 1700000000,
     origin_file_ident |-> 1, original_changeset_size |-> 7, data |-> Repeat("X", 7)]

S1 == <<Ident(42, 7, 13)>>
S2 == <<Download(1, 0, 0, <<>>)>>
S3 == <<Download(1, 5, 0, <<S3Changeset>>)>>
S4 == <<Download(1, 5, 1, <<S3Changeset>>)>>
S5 == <<Upload(1, 10, 0, <<Local(1, <<"a", "b">>), Local(2, <<"c">>)>>)>>

Streams ==
    <<S1, S2, S3, S4, S5,
      <<Ident(1, 2, 3), Ident(1, 2, 3)>>,
      <<Download(1, 5, 0, <<Remote(5, <<"X">>)>>)>>,
      <<Download(1, 5, 1, <<Remote(5, <<"X">>)>>)>>,
      <<Download(1, 6, 0, <<Remote(5, <<"X", "Y">>), Remote(6, <<"Z">>)>>)>>,
      <<Download(1, 6, 0, <<Remote(6, <<"X">>), Remote(5, <<"Z">>)>>)>>,
      <<Download(1, 5, 0, <<>>), Download(1, 3, 0, <<>>)>>,
      <<Download(1, 3, 0, <<>>), Download(2, 5, 1, <<>>)>>,
      <<Download(1, 5, 0, <<Remote(5, <<"X">>)>>), Ident(1, 7, 13), Upload(1, 10, 0, <<Local(8, <<"a">>)>>)>>,
      <<Upload(1, 10, 1, <<Local(1, <<"a", "a">>), Local(2, <<"c">>)>>), Ident(1, 7, 13)>>,
      <<Upload(1, 10, 0, <<Local(1, <<"a">>), Local(2, <<"F">>), Local(3, <<"c">>)>>)>>,
      <<Upload(1, 10, 0, <<Local(1, <<"a">>), Local(2, <<BAD>>)>>), Ident(1, 7, 13)>>,
      <<Download(1, 5, 0, <<Remote(5, <<BAD>>)>>)>>,
      <<Upload(1, 10, 0, <<>>)>>,
      <<Ident(1, 7, 13), Upload(1, 10, 0, <<Local(1, <<"a">>), Local(2, <<BAD>>)>>), Ident(1, 8, 14)>>,
      <<Download(1, 6, 0, <<Remote(5, <<"X", "Y">>), Remote(6, <<"Z">>)>>),
        Upload(1, 10, 0, <<Local(1, <<"a", "b">>), Local(2, <<"c">>)>>),
        Ident(1, 7, 13)>>,
      <<Download(1, 6, 0, <<Remote(6, <<"X">>), Remote(5, <<"Z">>)>>),
        Ident(1, 7, 13),
        Download(1, 7, 0, <<Remote(7, <<"X">>)>>)>> >>

DownloadHeader(fs) == DOWNLOAD \o <<SP>> \o JoinRaw(fs) \o <<LF>>

\* a message whose body is a well-formed first record followed by the
\* fields fs of a second one, with filler behind the records and the message
SecondRecord(msg, first, fs) ==
    EncBody(msg, first \o JoinRaw(fs) \o Repeat(FILL, 12)) \o Repeat(FILL, NFields(msg))

MalformedInputs ==
    <<Malformed("nonnumeric", DownloadHeader(<<<<"x">>>> \o Zeros(10))),
      Malformed("nonnumeric", IDENT \o <<SP, "4", "x", SP, "7", SP, "1", "3", LF>>),
      Malformed("nonnumeric", IDENT \o <<SP, SP, "7", SP, "1", "3", LF>>),
      Malformed("separator", IDENT \o <<SP, "4", "2", SP, SP, "7", SP, "1", "3", LF>>),
      Malformed("separator", IDENT \o <<SP, "4", "2", LF, "7", SP, "1", "3", LF>>),
      Malformed("separator", IDENT \o <<SP, "4", "2", ",", "7", SP, "1", "3", LF>>),
      Malformed("terminator", IDENT \o <<SP, "4", "2", SP, "7", SP, "1", "3", SP>>),
      Malformed("terminator", IDENT \o <<SP, "4", "2", SP, "7", SP, "1", "3">>),
      Malformed("terminator", IDENT \o <<SP, "4", "2", SP, "7", SP, "1", "3", ";", FILL, FILL, FILL>>),
      Malformed("terminator", IDENT \o <<SP, "4", "2", SP, "7", SP, "1", "3", SP, FILL, FILL, FILL>>),
      Malformed("missing_field", IDENT \o <<SP, "4", "2", LF>>),
      Malformed("missing_field", DownloadHeader(Zeros(8))),
      Malformed("missing_field", IDENT \o <<SP, "4", "2", LF>> \o Enc(Ident(1, 2, 3))),
      Malformed("missing_field", IDENT \o <<SP, "4", "2", SP, "7", LF>> \o Repeat(FILL, 4)),
      Malformed("missing_field", DownloadHeader(Zeros(8)) \o Repeat(FILL, 12)),
      Malformed("unknown_type", <<"b", "o", "g", "u", "s", SP, "1", SP, "2", SP, "3", LF>>),
      Malformed("unknown_type", IDENT),
      Malformed("unknown_type", <<"b", "o", "g", "u", "s", SP, "1", SP, "2", SP, "3", LF, FILL, FILL, FILL>>),
      Malformed("unknown_type", IDENT \o <<"x", SP, "1", SP, "2", SP, "3", LF, FILL, FILL, FILL>>),
      Malformed("unknown_type", <<SP>> \o IDENT \o <<SP, "1", SP, "2", SP, "3", LF, FILL, FILL, FILL>>),
      Malformed("unknown_type", <<"I", "d", "e", "n", "t", SP, "1", SP, "2", SP, "3", LF, FILL, FILL, FILL>>),
      Malformed("unknown_type", <<"u", "p">> \o DOWNLOAD \o <<SP, "1", SP, "2", SP, "3", LF, FILL, FILL, FILL>>),
      Malformed("second_message", Enc(Ident(1, 2, 3)) \o <<"b", "o", "g", "u", "s", SP, "1", SP, "2", SP, "3", LF>>),
      Malformed("negative", IDENT \o <<SP, MINUS, "1", SP, "7", SP, "1", "3", LF>>),
      Malformed("negative", IDENT \o <<SP, "1", SP, MINUS, "7", SP, "1", "3", LF>> \o Repeat(FILL, 3)),
      Malformed("overflow", IDENT \o <<SP>> \o Repeat("9", 10) \o <<SP, "7", SP, "1", "3", LF>> \o Repeat(FILL, 3)),
      Malformed("overflow", IDENT \o <<SP, "2", "1", "4", "7", "4", "8", "3", "6", "4", "8", SP, "7", SP, "1", "3", LF>>
                                \o Repeat(FILL, 3)),
      Malformed("overflow", IDENT \o <<SP, "1", SP, "7", SP>> \o Repeat("9", 12) \o <<LF>> \o Repeat(FILL, 3)),
      Malformed("overflow", DownloadHeader(Zeros(8) \o <<<<"4", "0", "0", "0", "0">>, <<"0">>, <<"0">>>>)
                                \o Repeat(FILL, 11)),
      Malformed("overflow", DownloadHeader(Zeros(8) \o <<<<MINUS, "4", "0", "0", "0", "0">>, <<"0">>, <<"0">>>>)
                                \o Repeat(FILL, 11)),
      Malformed("overflow", UPLOAD \o <<SP>> \o JoinRaw(<<<<"1">>, <<"3", "2", "7", "6", "8">>>> \o Zeros(5))
                                \o <<LF>> \o Repeat(FILL, 7)),
      Malformed("body_size", DownloadHeader(Zeros(9) \o <<<<"5">>, <<"0">>>>) \o <<"a", "b">>),
      Malformed("body_size", DownloadHeader(Zeros(9) \o <<<<"2", "0">>, <<"0">>>>) \o Repeat(FILL, 12)),
      Malformed("body_size", DownloadHeader(Zeros(8) \o <<<<"1">>, <<"3">>, <<"9">>>>) \o <<"3", "X">>),
      Malformed("body_size", DownloadHeader(Zeros(8) \o <<<<"1">>, <<"3">>, <<"2", "0">>>>) \o <<"3", "X">> \o Repeat(FILL, 12)),
      Malformed("body_size", DownloadHeader(Zeros(9) \o <<<<"5">>, <<"0">>>>) \o <<"a", "b", "c">>),
      Malformed("body_size", DownloadHeader(Zeros(8) \o <<<<"1">>, <<"5">>, <<"4">>>>) \o <<"2", FILL, "3">>),
      Malformed("changeset_size",
                DownloadHeader(Zeros(9) \o <<<<"1", "3">>, <<"0">>>>)
                    \o JoinRaw(<<<<"5">>, <<"0">>, <<"1">>, <<"1">>, <<"9">>, <<"9">>>>) \o <<SP, "X">>
                    \o Repeat(FILL, 11)),
      Malformed("changeset_size",
                DownloadHeader(Zeros(9) \o <<<<"1", "4">>, <<"0">>>>)
                    \o JoinRaw(<<<<"5">>, <<"0">>, <<"1">>, <<"1">>, <<"9">>, <<"9">>>>) \o <<SP, "X", "Y">>),
      Malformed("changeset_size",
                DownloadHeader(Zeros(9) \o <<<<"2", "1">>, <<"0">>>>)
                    \o JoinRaw(<<<<"5">>, <<"0">>, <<"1">>, <<"1">>, <<"9">>, <<"9">>>>) \o <<SP>>
                    \o Repeat("X", 9) \o Repeat(FILL, 11)),
      Malformed("changeset", SecondRecord(Download(1, 6, 0, <<>>), EncRemote(Remote(5, <<"X">>)),
                                          <<<<"6">>, <<"x">>, <<"1", "7">>, <<"1">>, <<"1">>, <<"1">>, <<"X">>>>)),
      Malformed("changeset", SecondRecord(Download(1, 6, 1, <<>>), EncRemote(Remote(5, <<"X">>)),
                                          <<<<"6">>, <<"0">>, <<"1", "7">>, <<"1">>, <<"1">>>>)),
      Malformed("changeset", SecondRecord(Download(1, 6, 0, <<>>), EncRemote(Remote(5, <<"X">>)),
                                          <<<<"6">>, <<"0">>, <<"1", "7">>, <<"1">>, <<"9">>, <<"9">>, <<"X">>>>)),
      Malformed("changeset", SecondRecord(Download(1, 6, 0, <<>>), EncRemote(Remote(5, <<"X">>)),
                                          <<<<"6">>, <<"0">>, <<"1", "7">>, <<"1">>, <<"1">>, <<"1">>, <<BAD>>>>)),
      Malformed("changeset", SecondRecord(Upload(1, 10, 0, <<>>), EncLocal(Local(1, <<"a">>)),
                                          <<<<"2">>, <<"0">>, <<"1", "7">>, <<"1">>, <<"x">>, <<"c">>>>)),
      Malformed("changeset", SecondRecord(Upload(1, 10, 1, <<>>), EncLocal(Local(1, <<"a">>)),
                                          <<<<"2">>, <<"0">>, <<"1", "7">>, <<"1">>, <<"1">>, <<BAD>>>>)) >>

RECURSIVE MapStreams(_, _)
MapStreams(ss, padded) ==
    IF Len(ss) = 0 THEN <<>>
    ELSE <<IF padded THEN Padded(Head(ss)) ELSE Valid(Head(ss))>> \o MapStreams(Tail(ss), padded)

Inputs == MapStreams(Streams, FALSE) \o MapStreams(Streams, TRUE) \o MalformedInputs

Range(s) == {s[i] : i \in 1..Len(s)}

\* what may lie in memory behind the terminating NUL of the loaded file and
\* behind an allocated buffer
Heaps == {<<>>, <<NUL>>, <<"7", SP, "7", SP>>}

\* what an uninitialized integer variable may hold
MaxUninit == 1

UninitVals == 0..MaxUninit

(***************************************************************************)
(* The history (ClientHistoryImpl) and the database (DB), as far as main   *)
(* uses them.                                                              *)
(***************************************************************************)
ZeroProgress ==
    [download |-> [server_version |-> 0, last_integrated_client_version |-> 0],
     upload |-> [client_version |-> 0, last_integrated_server_version |-> 0]]

InitHistory ==
    [client_file_ident |-> [ident |-> 0, salt |-> 0],
     progress |-> ZeroProgress,
     last_remote_version |-> 0,
     integrated |-> <<>>]

\* the engine accepts a batch whose remote versions are strictly increasing
\* and follow the last integrated one
BatchOk(h, cs) ==
    /\ \A i \in 1..Len(cs) : cs[i].remote_version > h.last_remote_version
    /\ \A i \in 1..(Len(cs) - 1) : cs[i].remote_version < cs[i + 1].remote_version

RemoteData(cs) == [i \in 1..Len(cs) |-> cs[i].data]

\* ClientHistoryImpl::integrate_server_changesets: atomic, all or nothing
integrate_server_changesets(h, progress, cs, err) ==
    IF err THEN h
    ELSE [h EXCEPT !.progress = progress,
                   !.last_remote_version = IF Len(cs) = 0 THEN @ ELSE cs[Len(cs)].remote_version,
                   !.integrated = @ \o RemoteData(cs)]

\* ClientHistoryImpl::set_client_file_ident
set_client_file_ident(h, file_ident) == [h EXCEPT !.client_file_ident = file_ident]

InitDB == [version |-> 1, state |-> <<>>, txn |-> FALSE, txn_state |-> <<>>]

\* an instruction the applier cannot apply
FAILS == "F"

apply_throws(instructions) == \E i \in 1..Len(instructions) : instructions[i] = FAILS

(***************************************************************************)
(* The driver: main().                                                     *)
(***************************************************************************)
VARIABLES
    args,        \* the command line, as the argument parser sees it
    created,     \* the history and the DB of the realm path were constructed
    loaded,      \* load_file has read the input file
    input,       \* the input file that was loaded (an element of Inputs)
    mem,         \* input_contents, its terminating NUL, and the heap behind it
    heap,        \* the bytes behind an allocated buffer
    input_view,  \* main's input_view
    pc,          \* "main", "key", "create", "load", "returned" (main left before the
                 \* loop), "loop", "dispatch", "apply", "commit", "done"
    msg,         \* maybe_message->first
    ci,          \* position of the for loop over upload_message.changesets
    history,     \* the ClientHistoryImpl
    db,          \* the DB
    ops,         \* the engine operations performed, in order
    parsed,      \* the messages parse_message returned, in order
    last,        \* the outcome of the last parse_message call
    exit_code    \* "running", "EXIT_SUCCESS", "EXIT_FAILURE", "terminate", "segv"

mainVars == <<args, created, loaded, input, mem, heap, input_view, pc, msg, ci, history, db, ops, parsed, last, exit_code>>

\* util::parse_arguments and its caller
VARIABLES
    argv,        \* the argument vector, argv[1] is the program name
    to_parse,    \* the flag objects handed to parse_arguments, in list order
    result,      \* the CliParseResult
    cli_pc       \* "idle", "call", "returned", "thrown"

cliVars == <<argv, to_parse, result, cli_pc>>

\* a WeakRealmNotifier, its Realm, and the event loop of the Realm's thread
VARIABLES
    realm_refs,           \* the shared_ptr<Realm> instances that exist
    owner,                \* the user still holds the shared_ptr<Realm>
    m_signal,             \* "null", or "signal": the EventLoopSignal was made
    m_execution_context,  \* the execution context recorded in the notifier
    signalled,            \* the signal was notified, its callback is still to run
    callback,             \* "idle", or "locked": it holds the locked Realm
    notify_calls,         \* per call of WeakRealmNotifier::notify: m_signal was set
    realm_notify,         \* the calls of Realm::notify, in order
    binds,                \* how often an EventLoopSignal was made for the notifier
    wrn_pc                \* "idle", "running", "aborted" (an assertion failed)

notifierVars ==
    <<realm_refs, owner, m_signal, m_execution_context, signalled, callback, notify_calls,
      realm_notify, binds, wrn_pc>>

vars == <<mainVars, cliVars, notifierVars>>

\* parse_arguments is not called
CliIdle == argv = <<>> /\ to_parse = <<>> /\ result = <<>> /\ cli_pc = "idle"

\* there is no notifier
NotifierIdle ==
    /\ realm_refs = 0
    /\ owner = FALSE
    /\ m_signal = "null"
    /\ m_execution_context = "none"
    /\ signalled = FALSE
    /\ callback = "idle"
    /\ notify_calls = <<>>
    /\ realm_notify = <<>>
    /\ binds = 0
    /\ wrn_pc = "idle"

NoParse == [st |-> "none", msg |-> NoMsg, from |-> View(0, 0), rest |-> View(0, 0)]

\* The command lines: parse is whether arg_parser.parse returns or throws
\* (an option without its value); help, realm and input are whether the
\* flag was found; key is the encryption key file ("none" without -e),
\* readable whether the input file can be read.
CommandLines ==
    [parse : {"ok", "throws"}, help : BOOLEAN, realm : BOOLEAN, input : BOOLEAN,
     key : {"none", "readable", "unreadable"}, readable : BOOLEAN]

\* no file is loaded
NoFile == [kind |-> "none", msgs |-> <<>>, defect |-> "none", bytes |-> <<>>]

\* the state of main at its start, the command line left open
MainStart ==
    /\ created = FALSE
    /\ loaded = FALSE
    /\ input = NoFile
    /\ heap = <<>>
    /\ mem = <<>>
    /\ input_view = View(0, 0)
    /\ pc = "main"
    /\ msg = NoMsg
    /\ ci = 1
    /\ history = InitHistory
    /\ db = InitDB
    /\ ops = <<>>
    /\ parsed = <<>>
    /\ last = NoParse
    /\ exit_code = "running"

Init ==
    /\ args \in CommandLines
    /\ MainStart
    /\ CliIdle
    /\ NotifierIdle

\* main is not run
MainIdle ==
    /\ args = [parse |-> "ok", help |-> TRUE, realm |-> FALSE, input |-> FALSE, key |-> "none",
               readable |-> FALSE]
    /\ MainStart

\* main up to the checks of the required arguments
ParseArguments ==
    /\ pc = "main"
    /\ IF args.parse = "throws" THEN pc' = "returned" /\ exit_code' = "terminate"
       ELSE IF args.help THEN pc' = "returned" /\ exit_code' = "EXIT_SUCCESS"
       ELSE IF ~args.realm THEN pc' = "returned" /\ exit_code' = "EXIT_FAILURE"
       ELSE IF ~args.input THEN pc' = "returned" /\ exit_code' = "EXIT_FAILURE"
       ELSE pc' = "key" /\ exit_code' = exit_code
    /\ UNCHANGED <<cliVars, notifierVars, args, created, loaded, input, mem, heap, input_view, msg, ci, history, db, ops,
                   parsed, last>>

\* if (encryption_key_arg) { encryption_key = load_file(...); }
LoadKey ==
    /\ pc = "key"
    /\ IF args.key = "unreadable" THEN pc' = "returned" /\ exit_code' = "terminate"
       ELSE pc' = "create" /\ exit_code' = exit_code
    /\ UNCHANGED <<cliVars, notifierVars, args, created, loaded, input, mem, heap, input_view, msg, ci, history, db, ops,
                   parsed, last>>

\* ClientHistoryImpl history{realm_path}; auto localDB = DB::create(history, dbOpts);
CreateDB ==
    /\ pc = "create"
    /\ created' = TRUE
    /\ pc' = "load"
    /\ UNCHANGED <<cliVars, notifierVars, args, loaded, input, mem, heap, input_view, msg, ci, history, db, ops, parsed,
                   last, exit_code>>

\* auto input_contents = load_file(...); auto input_view = StringView{input_contents};
LoadInput ==
    /\ pc = "load"
    /\ IF ~args.readable
       THEN /\ pc' = "returned"
            /\ exit_code' = "terminate"
            /\ UNCHANGED <<loaded, input, mem, heap, input_view>>
       ELSE /\ \E f \in Range(Inputs), hp \in Heaps :
                   /\ input' = f
                   /\ heap' = hp
                   /\ mem' = f.bytes \o <<NUL>> \o hp
                   /\ input_view' = View(1, Len(f.bytes))
            /\ loaded' = TRUE
            /\ pc' = "loop"
            /\ exit_code' = exit_code
    /\ UNCHANGED <<cliVars, notifierVars, args, created, msg, ci, history, db, ops, parsed, last>>

\* how the process ends when parse_message does not return
Abnormal_as_failure(st) == "EXIT_FAILURE"

Abnormal(st) == IF st = "segv" THEN "segv" ELSE "terminate"

\* if (!maybe_message) { logger->error(...); return EXIT_FAILURE; }
\* (an exception or a fault ends the process where it happens)
AfterFailedParse_continue(st) == [pc |-> "loop", exit_code |-> "running"]

AfterFailedParse(st) ==
    [pc |-> "done", exit_code |-> IF st = "fail" THEN "EXIT_FAILURE" ELSE Abnormal(st)]

\* while (!input_view.empty()) { auto maybe_message = parse_message(...); ...
ParseMessage ==
    /\ pc = "loop"
    /\ ~ViewEmpty(input_view)
    /\ \E u \in UninitVals :
        \E r \in {parse_message(mem, input_view, u, heap)} :
            /\ last' = [st |-> r.st, msg |-> r.msg, from |-> input_view, rest |-> r.rest]
            /\ IF r.st = "ok"
               THEN /\ msg' = r.msg
                    /\ input_view' = r.rest
                    /\ parsed' = Append(parsed, r.msg)
                    /\ pc' = "dispatch"
                    /\ ci' = 1
                    /\ exit_code' = exit_code
               ELSE /\ pc' = AfterFailedParse(r.st).pc
                    /\ exit_code' = AfterFailedParse(r.st).exit_code
                    /\ UNCHANGED <<msg, input_view, parsed, ci>>
    /\ UNCHANGED <<cliVars, notifierVars, args, created, loaded, input, mem, heap, history, db, ops>>

\* the loop condition fails: return EXIT_SUCCESS
Exit ==
    /\ pc = "loop"
    /\ ViewEmpty(input_view)
    /\ pc' = "done"
    /\ exit_code' = "EXIT_SUCCESS"
    /\ UNCHANGED <<cliVars, notifierVars, args, created, loaded, input, mem, heap, input_view, msg, ci, history, db, ops, parsed, last>>

\* history.integrate_server_changesets(progress, &downloadable_bytes,
\* changesets.data(), changesets.size(), ...)
OpIntegrate_size_less_one(k, m, err) ==
    [op |-> "integrate_server_changesets", k |-> k,
     a |-> [progress |-> m.progress, downloadable_bytes |-> m.downloadable_bytes,
            changesets |-> SubSeq(m.changesets, 1, Len(m.changesets) - 1),
            integration_error |-> err]]

OpIntegrate(k, m, err) ==
    [op |-> "integrate_server_changesets", k |-> k,
     a |-> [progress |-> m.progress, downloadable_bytes |-> m.downloadable_bytes,
            changesets |-> m.changesets, integration_error |-> err]]

\* what main does once integrate_server_changesets has returned:
\* integration_error is written by the engine and never read
AfterIntegrate_fatal(err) ==
    IF err THEN [pc |-> "done", exit_code |-> "EXIT_FAILURE"]
    ELSE [pc |-> "loop", exit_code |-> "running"]

AfterIntegrate(err) == [pc |-> "loop", exit_code |-> "running"]

\* the DownloadMessage branch
IntegrateDownload ==
    /\ pc = "dispatch"
    /\ msg.type = "download"
    /\ LET err == ~BatchOk(history, msg.changesets)
        IN  /\ history' = integrate_server_changesets(history, msg.progress, msg.changesets, err)
            /\ ops' = Append(ops, OpIntegrate(Len(parsed), msg, err))
            /\ pc' = AfterIntegrate(err).pc
            /\ exit_code' = AfterIntegrate(err).exit_code
    /\ UNCHANGED <<cliVars, notifierVars, args, created, loaded, input, mem, heap, input_view, msg, ci, db, parsed, last>>

\* the ServerIdentMessage branch
SetClientFileIdent_swapped ==
    /\ pc = "dispatch"
    /\ msg.type = "ident"
    /\ history' = set_client_file_ident(history, [ident |-> msg.salt, salt |-> msg.ident])
    /\ ops' = Append(ops, [op |-> "set_client_file_ident", k |-> Len(parsed),
                           a |-> [ident |-> msg.salt, salt |-> msg.ident]])
    /\ pc' = "loop"
    /\ UNCHANGED <<cliVars, notifierVars, args, created, loaded, input, mem, heap, input_view, msg, ci, db, parsed, last, exit_code>>

SetClientFileIdent ==
    /\ pc = "dispatch"
    /\ msg.type = "ident"
    /\ history' = set_client_file_ident(history, [ident |-> msg.ident, salt |-> msg.salt])
    /\ ops' = Append(ops, [op |-> "set_client_file_ident", k |-> Len(parsed),
                           a |-> [ident |-> msg.ident, salt |-> msg.salt]])
    /\ pc' = "loop"
    /\ UNCHANGED <<cliVars, notifierVars, args, created, loaded, input, mem, heap, input_view, msg, ci, db, parsed, last, exit_code>>

\* for (const auto& changeset : upload_message.changesets)
MoreChangesets_skip_last(m, i) == i < Len(m.changesets)

MoreChangesets(m, i) == i <= Len(m.changesets)

\* the UploadMessage branch: auto transaction = localDB->start_write();
StartWrite ==
    /\ pc = "dispatch"
    /\ msg.type = "upload"
    /\ MoreChangesets(msg, ci)
    /\ db' = [db EXCEPT !.txn = TRUE, !.txn_state = db.state]
    /\ pc' = "apply"
    /\ UNCHANGED <<cliVars, notifierVars, args, created, loaded, input, mem, heap, input_view, msg, ci, history, ops, parsed, last, exit_code>>

\* applier.apply(changeset, logger): an exception leaves main, the
\* transaction is rolled back on the way
Apply_commits_on_error ==
    /\ pc = "apply"
    /\ IF apply_throws(msg.changesets[ci].instructions)
       THEN /\ db' = [version |-> db.version + 1, state |-> db.txn_state, txn |-> FALSE,
                      txn_state |-> <<>>]
            /\ pc' = "done"
            /\ exit_code' = "terminate"
       ELSE /\ db' = [db EXCEPT !.txn_state = @ \o msg.changesets[ci].instructions]
            /\ pc' = "commit"
            /\ exit_code' = exit_code
    /\ UNCHANGED <<cliVars, notifierVars, args, created, loaded, input, mem, heap, input_view, msg, ci, history, ops, parsed, last>>

Apply ==
    /\ pc = "apply"
    /\ IF apply_throws(msg.changesets[ci].instructions)
       THEN /\ db' = [db EXCEPT !.txn = FALSE, !.txn_state = <<>>]
            /\ pc' = "done"
            /\ exit_code' = "terminate"
       ELSE /\ db' = [db EXCEPT !.txn_state = @ \o msg.changesets[ci].instructions]
            /\ pc' = "commit"
            /\ exit_code' = exit_code
    /\ UNCHANGED <<cliVars, notifierVars, args, created, loaded, input, mem, heap, input_view, msg, ci, history, ops, parsed, last>>

\* auto generated_version = transaction->commit();
Commit_keeps_transaction ==
    /\ pc = "commit"
    /\ db' = [version |-> db.version + 1, state |-> db.txn_state, txn |-> TRUE,
              txn_state |-> db.txn_state]
    /\ ops' = Append(ops, [op |-> "commit", k |-> Len(parsed),
                           a |-> [changeset |-> ci, version |-> db.version + 1]])
    /\ ci' = ci + 1
    /\ pc' = "dispatch"
    /\ UNCHANGED <<cliVars, notifierVars, args, created, loaded, input, mem, heap, input_view, msg, history, parsed, last, exit_code>>

Commit ==
    /\ pc = "commit"
    /\ db' = [version |-> db.version + 1, state |-> db.txn_state, txn |-> FALSE, txn_state |-> <<>>]
    /\ ops' = Append(ops, [op |-> "commit", k |-> Len(parsed),
                           a |-> [changeset |-> ci, version |-> db.version + 1]])
    /\ ci' = ci + 1
    /\ pc' = "dispatch"
    /\ UNCHANGED <<cliVars, notifierVars, args, created, loaded, input, mem, heap, input_view, msg, history, parsed, last, exit_code>>

\* the for loop over the changesets of the upload message is over
UploadDone ==
    /\ pc = "dispatch"
    /\ msg.type = "upload"
    /\ ~MoreChangesets(msg, ci)
    /\ pc' = "loop"
    /\ UNCHANGED <<cliVars, notifierVars, args, created, loaded, input, mem, heap, input_view, msg, ci, history, db, ops, parsed, last, exit_code>>

Next ==
    \/ ParseArguments
    \/ LoadKey
    \/ CreateDB
    \/ LoadInput
    \/ ParseMessage
    \/ Exit
    \/ IntegrateDownload
    \/ SetClientFileIdent
    \/ StartWrite
    \/ Apply
    \/ Commit
    \/ UploadDone

Spec == Init /\ [][Next]_vars

(***************************************************************************)
(* util::parse_arguments (cli_args.cpp).  An argument is a sequence of     *)
(* characters.  A flag object is [name, short_name, expects_value,         *)
(* m_found, m_value]: a CliFlag has expects_value = FALSE and no value, a  *)
(* CliArgument has expects_value = TRUE.                                   *)
(***************************************************************************)
EQ == "="

CliFlag(name, short_name) ==
    [name |-> name, short_name |-> short_name, expects_value |-> FALSE, m_found |-> FALSE,
     m_value |-> <<>>]

CliArgument(name, short_name) ==
    [name |-> name, short_name |-> short_name, expects_value |-> TRUE, m_found |-> FALSE,
     m_value |-> <<>>]

\* CliFlag::assign and CliArgument::assign
assign(flag, value) ==
    IF flag.expects_value THEN [flag EXCEPT !.m_found = TRUE, !.m_value = value]
    ELSE [flag EXCEPT !.m_found = TRUE]

starts_with(s, c) == Len(s) > 0 /\ s[1] = c

\* s.find_first_of(c): the first position of c, counted from 0, npos = -1
npos == 0 - 1

find_first_of(s, c) ==
    IF \A i \in 1..Len(s) : s[i] # c THEN npos
    ELSE (CHOOSE i \in 1..Len(s) : s[i] = c /\ \A j \in 1..(i - 1) : s[j] # c) - 1

\* the lambda of find_if behind cur_arg.remove_prefix(1): c = cur_arg
flag_matches(c, flag) ==
    \/ starts_with(c, MINUS) /\ Tail(c) = flag.name
    \/ Len(c) = 2 /\ c[2] = flag.short_name

\* the lambda of find_if; cur_arg is captured by reference, so what the
\* lambda removes from it stays removed for the flags compared later
compare(cur_arg, flag) ==
    IF starts_with(cur_arg, MINUS)
    THEN [cur_arg |-> Tail(cur_arg), found |-> flag_matches(Tail(cur_arg), flag)]
    ELSE [cur_arg |-> cur_arg, found |-> FALSE]

RECURSIVE find_if(_, _, _)
RECURSIVE find_if_compared(_, _, _)
\* c = the outcome of the lambda for flags[k]
find_if_compared(flags, k, c) ==
    IF c.found THEN [it |-> k, cur_arg |-> c.cur_arg] ELSE find_if(flags, k + 1, c.cur_arg)

\* std::find_if over to_parse from position k; it = Len(flags) + 1 is end()
find_if(flags, k, cur_arg) ==
    IF k > Len(flags) THEN [it |-> k, cur_arg |-> cur_arg]
    ELSE find_if_compared(flags, k, compare(cur_arg, flags[k]))

RECURSIVE parse_arguments_loop(_, _, _, _)
\* the flag expects a value, eq_pos = cur_arg.find_first_of('=')
parse_arguments_value(av, i, flags, res, f, eq_pos) ==
    IF eq_pos # npos /\ eq_pos < Len(f.cur_arg)
    THEN parse_arguments_loop(
             av, i + 1,
             [flags EXCEPT ![f.it] = assign(@, SubSeq(f.cur_arg, eq_pos + 2, Len(f.cur_arg)))], res)
    ELSE IF i + 1 > Len(av)
    THEN [st |-> "throws", to_parse |-> flags, result |-> res]
    ELSE parse_arguments_loop(av, i + 2, [flags EXCEPT ![f.it] = assign(@, av[i + 1])], res)

\* the loop body behind find_if, f = its result
parse_arguments_found(av, i, flags, res, f) ==
    IF f.it > Len(flags)
    THEN parse_arguments_loop(
             av, i + 1, flags,
             [res EXCEPT !.unmatched_arguments = Append(@, f.cur_arg)])
    ELSE IF ~flags[f.it].expects_value
    THEN parse_arguments_loop(av, i + 1, [flags EXCEPT ![f.it] = assign(@, <<>>)], res)
    ELSE parse_arguments_value(av, i, flags, res, f, find_first_of(f.cur_arg, EQ))

\* for (int i = 1; i < argc; ++i), av[i] is argv[i - 1] of the code
parse_arguments_loop(av, i, flags, res) ==
    IF i > Len(av) THEN [st |-> "ok", to_parse |-> flags, result |-> res]
    ELSE parse_arguments_found(av, i, flags, res, find_if(flags, 1, av[i]))

parse_arguments(av, flags) ==
    parse_arguments_loop(av, 2, flags, [program_name |-> av[1], unmatched_arguments |-> <<>>])

\* the flags and the command lines of the calls
HelpFlag == CliFlag(<<"h", "e", "l", "p">>, "h")

RealmArgument == CliArgument(<<"r", "e", "a", "l", "m">>, "r")

ToParseLists ==
    {<<HelpFlag>>, <<RealmArgument>>, <<HelpFlag, RealmArgument>>, <<RealmArgument, HelpFlag>>}

LongForm(flag) == <<MINUS, MINUS>> \o flag.name

ShortForm(flag) == <<MINUS, flag.short_name>>

Path == <<"p">>

CliTokens ==
    {LongForm(HelpFlag), ShortForm(HelpFlag), LongForm(RealmArgument), ShortForm(RealmArgument),
     LongForm(RealmArgument) \o <<EQ>> \o Path, ShortForm(RealmArgument) \o <<EQ>> \o Path,
     Path, <<MINUS>> \o ShortForm(HelpFlag), <<MINUS>> \o LongForm(RealmArgument)}

MaxArgs == 2

CommandLineArgs == UNION {[1..n -> CliTokens] : n \in 0..MaxArgs}

CliInit ==
    /\ to_parse \in ToParseLists
    /\ \E a \in CommandLineArgs : argv = <<<<"a">>>> \o a
    /\ result = <<>>
    /\ cli_pc = "call"
    /\ MainIdle
    /\ NotifierIdle

\* the call of parse_arguments(argc, argv, to_parse)
CallParseArguments ==
    /\ cli_pc = "call"
    /\ \E r \in {parse_arguments(argv, to_parse)} :
           /\ to_parse' = r.to_parse
           /\ result' = r.result
           /\ cli_pc' = IF r.st = "ok" THEN "returned" ELSE "thrown"
    /\ UNCHANGED <<mainVars, notifierVars, argv>>

CliNext == CallParseArguments

CliSpec == CliInit /\ [][CliNext]_vars

(***************************************************************************)
(* WeakRealmNotifier (weak_realm_notifier.cpp).  The notifier holds a      *)
(* weak_ptr to its Realm and, once bound, an EventLoopSignal whose         *)
(* callback holds the same weak_ptr.  EventLoopSignal::notify asks the     *)
(* event loop to run the callback later, several requests before a run     *)
(* count as one.  The calls of notify and bind_to_execution_context are    *)
(* serialized by their caller; the event loop and the user of the Realm    *)
(* run beside them.                                                        *)
(***************************************************************************)
Contexts == {"c1", "c2"}

MaxNotifyCalls == 3

\* weak_realm.lock() of a callback that keeps no weak_ptr but the address
weak_realm_lock_unchecked(refs) == TRUE

\* weak_realm.lock(): a shared_ptr when the Realm still has an owner
weak_realm_lock(refs) == refs > 0

\* REALM_ASSERT(condition) ends the process when the condition is false
REALM_ASSERT(condition) == IF condition THEN "running" ELSE "aborted"

\* WeakRealmNotifier(realm, bind_to_context)
NotifierInit ==
    /\ realm_refs = 1
    /\ owner = TRUE
    /\ \E bind_to_context \in BOOLEAN :
           /\ m_signal = IF bind_to_context THEN "signal" ELSE "null"
           /\ binds = IF bind_to_context THEN 1 ELSE 0
    /\ m_execution_context = "config"
    /\ signalled = FALSE
    /\ callback = "idle"
    /\ notify_calls = <<>>
    /\ realm_notify = <<>>
    /\ wrn_pc = "running"
    /\ MainIdle
    /\ CliIdle

\* WeakRealmNotifier::notify
Notify ==
    /\ wrn_pc = "running"
    /\ Len(notify_calls) < MaxNotifyCalls
    /\ notify_calls' = Append(notify_calls, m_signal # "null")
    /\ signalled' = IF m_signal # "null" THEN TRUE ELSE signalled
    /\ UNCHANGED <<mainVars, cliVars, realm_refs, owner, m_signal, m_execution_context, callback,
                   realm_notify, binds, wrn_pc>>

\* WeakRealmNotifier::bind_to_execution_context(context)
BindToExecutionContext ==
    /\ wrn_pc = "running"
    /\ \E context \in Contexts :
           /\ wrn_pc' = REALM_ASSERT(m_signal = "null")
           /\ IF m_signal = "null"
              THEN /\ m_signal' = "signal"
                   /\ m_execution_context' = context
                   /\ binds' = binds + 1
              ELSE UNCHANGED <<m_signal, m_execution_context, binds>>
    /\ UNCHANGED <<mainVars, cliVars, realm_refs, owner, signalled, callback, notify_calls,
                   realm_notify>>

\* the event loop runs Callback::operator(): if (auto realm = weak_realm.lock())
CallbackLock ==
    /\ wrn_pc = "running"
    /\ signalled
    /\ callback = "idle"
    /\ signalled' = FALSE
    /\ callback' = IF weak_realm_lock(realm_refs) THEN "locked" ELSE "idle"
    /\ realm_refs' = IF realm_refs > 0 THEN realm_refs + 1 ELSE 0
    /\ UNCHANGED <<mainVars, cliVars, owner, m_signal, m_execution_context, notify_calls,
                   realm_notify, binds, wrn_pc>>

\* realm->notify(), and the shared_ptr of the callback goes out of scope
CallbackNotify ==
    /\ wrn_pc = "running"
    /\ callback = "locked"
    /\ realm_notify' = Append(realm_notify, [alive |-> realm_refs > 0, bound |-> m_signal # "null"])
    /\ callback' = "idle"
    /\ realm_refs' = IF realm_refs > 0 THEN realm_refs - 1 ELSE 0
    /\ UNCHANGED <<mainVars, cliVars, owner, m_signal, m_execution_context, signalled,
                   notify_calls, binds, wrn_pc>>

\* the user gives up the shared_ptr<Realm>; the Realm is destroyed with the
\* last shared_ptr
DestroyRealm ==
    /\ wrn_pc = "running"
    /\ owner
    /\ owner' = FALSE
    /\ realm_refs' = realm_refs - 1
    /\ UNCHANGED <<mainVars, cliVars, m_signal, m_execution_context, signalled, callback,
                   notify_calls, realm_notify, binds, wrn_pc>>

NotifierNext ==
    \/ Notify
    \/ BindToExecutionContext
    \/ CallbackLock
    \/ CallbackNotify
    \/ DestroyRealm

NotifierSpec == NotifierInit /\ [][NotifierNext]_vars

(***************************************************************************)
(* Properties                                                              *)
(***************************************************************************)
\* the loaded file and its length
File == input.bytes

FileLen == Len(File)

\* last is the outcome of the parse of the first message of the file
FirstParse == last.st # "none" /\ last.from.pos = 1

IsPrefix(a, b) == Len(a) <= Len(b) /\ SubSeq(b, 1, Len(a)) = a

\* the engine operations a parsed message calls for, in order
OpsOfMessage(m, k) ==
    IF m.type = "ident"
    THEN <<[op |-> "set_client_file_ident", k |-> k, what |-> [ident |-> m.ident, salt |-> m.salt]]>>
    ELSE IF m.type = "download"
    THEN <<[op |-> "integrate_server_changesets", k |-> k,
            what |-> [progress |-> m.progress, changesets |-> m.changesets]]>>
    ELSE [i \in 1..Len(m.changesets) |-> [op |-> "commit", k |-> k, what |-> [changeset |-> i]]]

RECURSIVE OpsOfMessages(_, _)
OpsOfMessages(ms, k) ==
    IF k > Len(ms) THEN <<>> ELSE OpsOfMessage(ms[k], k) \o OpsOfMessages(ms, k + 1)

\* an entry of ops without the results the engine returned
OpCall(o) ==
    [op |-> o.op, k |-> o.k,
     what |-> IF o.op = "commit" THEN [changeset |-> o.a.changeset]
              ELSE IF o.op = "integrate_server_changesets"
              THEN [progress |-> o.a.progress, changesets |-> o.a.changesets]
              ELSE o.a]

OpCalls == [i \in 1..Len(ops) |-> OpCall(ops[i])]

\* the changesets of a message lie in its body in the order of the list
InBodyOrder(m) ==
    m.type = "ident" \/
    \A i \in 1..(Len(m.changesets) - 1) : m.changesets[i].at < m.changesets[i + 1].at

\* C1: the engine operations of a message are finished before the next
\* message is parsed, so the operations performed are those of the parsed
\* messages in the order of the parse; the changesets of a download are
\* handed over, and those of an upload applied, in the order they have in
\* the body.
C1_ProgramOrder ==
    /\ IsPrefix(OpCalls, OpsOfMessages(parsed, 1))
    /\ pc = "loop" => OpCalls = OpsOfMessages(parsed, 1)
    /\ \A k \in 1..Len(parsed) : InBodyOrder(parsed[k])

C1_Witness ==
    /\ pc = "done"
    /\ Len(parsed) = 3
    /\ Len(ops) = 4
    /\ parsed[1].type = "download" /\ Len(parsed[1].changesets) = 2
    /\ parsed[2].type = "upload" /\ Len(parsed[2].changesets) = 2

\* a payload without a byte the decoder or the applier rejects
CleanBytes(b) == \A i \in 1..Len(b) : b[i] \notin {BAD, FAILS}

CleanMessage(m) ==
    m.type = "ident" \/
    \A i \in 1..Len(m.changesets) :
        CleanBytes(IF m.type = "download" THEN m.changesets[i].data ELSE m.changesets[i].instructions)

\* the file is a concatenation of well-formed messages
WellFormedInput ==
    /\ input.kind = "valid"
    /\ \A i \in 1..Len(input.msgs) : CleanMessage(input.msgs[i])

\* C2: on a concatenation of well-formed messages the driver ends with
\* EXIT_SUCCESS after one dispatch per message, and its input view never
\* reaches past the end of the input buffer.
C2_TerminatesNormally ==
    WellFormedInput =>
        /\ input_view.len >= 0 /\ input_view.pos + input_view.len <= FileLen + 1
        /\ pc = "done" => /\ exit_code = "EXIT_SUCCESS"
                          /\ Len(parsed) = Len(input.msgs)
                          /\ OpCalls = OpsOfMessages(parsed, 1)

\* parse_message returns std::nullopt in this step
ParseFailsNow == pc = "loop" /\ ~ViewEmpty(input_view) /\ last'.st = "fail"

\* C3: when parse_message fails, the driver exits with failure at once,
\* performs no engine operation for that message or a later one, and what
\* the earlier messages did stays.
C3_FailFast ==
    [][ /\ ParseFailsNow => /\ pc' = "done"
                            /\ exit_code' = "EXIT_FAILURE"
                            /\ ops' = ops /\ history' = history /\ db' = db
                            /\ OpCalls = OpsOfMessages(parsed, 1)
        /\ pc = "done" => (ops' = ops /\ history' = history /\ db' = db /\ pc' = "done") ]_vars

C3_Witness ==
    /\ last.st = "fail"
    /\ exit_code = "EXIT_FAILURE"
    /\ Len(parsed) = 1
    /\ Len(ops) = 1
    /\ input.defect = "second_message"

\* C4: a message with a non-numeric header field or a wrong delimiter makes
\* parse_message return failure, and nothing is done to the database or the
\* history.
C4_MalformedHeaderFails ==
    (input.defect \in {"nonnumeric", "separator", "terminator"} /\ FirstParse)
        => (last.st = "fail" /\ ops = <<>> /\ history = InitHistory /\ db = InitDB)

\* a parsed changeset list without the positions of the payloads
Records(cs) ==
    [i \in 1..Len(cs) |->
        [remote_version |-> cs[i].remote_version,
         last_integrated_local_version |-> cs[i].last_integrated_local_version,
         origin_timestamp |-> cs[i].origin_timestamp,
         origin_file_ident |-> cs[i].origin_file_ident,
         original_changeset_size |-> cs[i].original_changeset_size,
         data |-> cs[i].data]]

\* C5: a download message whose body is a concatenation of k records parses
\* to exactly these k changesets, in order, with their field values and
\* payloads, and the records consume the body exactly.
C5_DownloadBodyParses ==
    (WellFormedInput /\ input.msgs[1].type = "download" /\ FirstParse)
        => /\ last.st = "ok"
           /\ Records(last.msg.changesets) = input.msgs[1].changesets

RECURSIVE Commits(_, _)
Commits(os, k) ==
    IF Len(os) = 0 THEN <<>>
    ELSE IF Head(os).op = "commit" /\ Head(os).k = k THEN <<Head(os).a>> \o Commits(Tail(os), k)
    ELSE Commits(Tail(os), k)

\* C6: when the changesets of an upload message have been applied, there
\* was one committed write transaction per changeset, and the commit
\* versions are strictly increasing in changeset order.
C6_UploadCommits ==
    (pc = "loop" /\ msg.type = "upload") =>
        LET c == Commits(ops, Len(parsed))
        IN  /\ Len(c) = Len(msg.changesets)
            /\ \A i \in 1..Len(c) : c[i].changeset = i
            /\ \A i \in 1..(Len(c) - 1) : c[i].version < c[i + 1].version
            /\ Len(c) > 0 => c[Len(c)].version = db.version
            /\ ~db.txn

C6_Witness ==
    /\ pc = "loop"
    /\ msg.type = "upload"
    /\ Len(msg.changesets) = 2
    /\ Len(Commits(ops, Len(parsed))) = 2

DownloadVersions ==
    {parsed[k].progress.download.server_version :
        k \in {j \in 1..Len(parsed) : parsed[j].type = "download"}}

\* C7: after any prefix of the stream the download.server_version stored
\* in the history is the maximum download.server_version of the download
\* messages processed so far.
C7_StoredProgressIsMax ==
    (pc = "loop" /\ DownloadVersions # {}) =>
        /\ history.progress.download.server_version \in DownloadVersions
        /\ \A v \in DownloadVersions : v <= history.progress.download.server_version

\* integrate_server_changesets reports an IntegrationError in this step
IntegrationErrorNow ==
    /\ pc = "dispatch"
    /\ msg.type = "download"
    /\ Len(ops') = Len(ops) + 1
    /\ ops'[Len(ops')].a.integration_error

\* C8: an IntegrationError does not end the run and skips nothing: the
\* driver returns to the head of its loop with the input view where the
\* parser left it, and the run can still end with EXIT_SUCCESS.
C8_IntegrationErrorNotFatal ==
    [][IntegrationErrorNow => /\ pc' = "loop"
                              /\ exit_code' = "running"
                              /\ input_view' = input_view
                              /\ parsed' = parsed]_vars

C8_Witness ==
    /\ exit_code = "EXIT_SUCCESS"
    /\ Len(ops) >= 2
    /\ ops[1].op = "integrate_server_changesets"
    /\ ops[1].a.integration_error
    /\ Len(parsed) = 3

\* the messages ms with the first one sent uncompressed
Twin(ms) == <<[ms[1] EXCEPT !.compressed = 0]>> \o Tail(ms)

\* the file of the loaded input with its first message sent uncompressed
UncompressedTwin ==
    IF input.kind = "padded" THEN Padded(Twin(input.msgs)).bytes ELSE Valid(Twin(input.msgs)).bytes

\* the parse of the first message of a file of the given bytes
ParseFile(bytes, hp) == parse_message(bytes \o <<NUL>> \o hp, View(1, Len(bytes)), 0, hp)

\* C9: a compressed download message parses to the same session, progress
\* and changesets as the uncompressed message with the same body; its
\* buffer has uncompressed_body_size bytes and the input advances by
\* compressed_body_size.
C9_CompressedSameAsUncompressed ==
    (/\ input.kind \in {"valid", "padded"}
     /\ input.msgs[1].type = "download"
     /\ input.msgs[1].compressed = 1
     /\ FirstParse) =>
        \A r \in {ParseFile(UncompressedTwin, heap)} :
            /\ (last.st = "ok") = (r.st = "ok")
            /\ last.st = "ok" =>
                /\ last.msg.session_ident = r.msg.session_ident
                /\ last.msg.progress = r.msg.progress
                /\ last.msg.latest_server_version = r.msg.latest_server_version
                /\ last.msg.downloadable_bytes = r.msg.downloadable_bytes
                /\ Records(last.msg.changesets) = Records(r.msg.changesets)
                /\ r.msg.bodybuf = "input"
                /\ last.msg.bodybuf = "buffer"
                /\ Len(last.msg.uncompressed_body_buffer) = last.msg.uncompressed_body_size
                /\ last.rest = Substr(last.msg.hdr_end, last.msg.compressed_body_size)

C9_Witness ==
    /\ FirstParse
    /\ last.st = "ok"
    /\ last.msg.type = "download"
    /\ last.msg.bodybuf = "buffer"
    /\ Len(last.msg.changesets) = 1
    /\ last.msg.compressed_body_size # last.msg.uncompressed_body_size
    /\ input.kind = "padded"

\* the bytes of the file behind the header of the first message
Available == FileLen - (last.msg.hdr_end.pos - 1)

DeclaredBodySize ==
    IF last.msg.is_body_compressed # 0 THEN last.msg.compressed_body_size
    ELSE last.msg.uncompressed_body_size

\* the payloads taken lie inside the body
PayloadsInBody ==
    \A i \in 1..Len(last.msg.changesets) :
        LET c == last.msg.changesets[i]
            size == Len(IF last.msg.type = "download" THEN c.data ELSE c.instructions)
        IN  c.at + size <= last.msg.body_view.pos + last.msg.body_view.len

\* C10: a declared body size above the bytes that remain after the header,
\* or a changeset_size above the bytes that remain in the body, makes the
\* parse fail, and no byte beyond the available ones is taken as body or
\* payload.
C10_OversizeFails ==
    (FirstParse /\ last.msg.type \in {"download", "upload"}) =>
        /\ DeclaredBodySize > Available => (last.st = "fail" /\ last.msg.bodybuf = "none")
        /\ PayloadsInBody
        /\ input.defect = "changeset_size" => last.st = "fail"

\* C11: a header line that reaches its end delimiter before all the fields
\* of its message type were read is a parse failure, and every message the
\* parser returns has all its fields assigned from the input.
C11_MissingFieldFails ==
    (input.defect = "missing_field" /\ FirstParse) =>
        /\ last.st = "fail"
        /\ \A k \in 1..Len(parsed) : parsed[k].nset = NFields(parsed[k])

\* the view lies inside the loaded file
ProperView(v) == v.pos >= 1 /\ v.len >= 0 /\ v.pos + v.len <= FileLen + 1

ViewBytes(m, v) == SubSeq(m, v.pos, v.pos + v.len - 1)

\* the bytes before the first space, <<SP>> when there is no space
FirstToken(bytes) ==
    IF \A i \in 1..Len(bytes) : bytes[i] # SP THEN <<SP>>
    ELSE SubSeq(bytes, 1, (CHOOSE i \in 1..Len(bytes) :
                              bytes[i] = SP /\ \A j \in 1..(i - 1) : bytes[j] # SP) - 1)

TypeOfToken(t) ==
    IF t = IDENT THEN "ident" ELSE IF t = DOWNLOAD THEN "download"
    ELSE IF t = UPLOAD THEN "upload" ELSE "none"

\* C12: parse_message fails on every input whose first space-terminated
\* token is not ident, download or upload (an input without a space
\* included), and a message it returns is of the type the token names.
C12_UnknownTypeFails ==
    (last.st # "none" /\ ProperView(last.from)) =>
        \A ty \in {TypeOfToken(FirstToken(ViewBytes(mem, last.from)))} :
            /\ ty = "none" => (last.st = "fail" /\ last.msg = NoMsg)
            /\ last.st = "ok" => last.msg.type = ty
            /\ last.msg # NoMsg => last.msg.type = ty

C12_Witness ==
    /\ FirstParse
    /\ last.st = "fail"
    /\ input.defect = "unknown_type"
    /\ FileLen > 12
    /\ SubSeq(mem, 1, 6) = IDENT \o <<"x">>

\* C13: a numeric header field whose value does not fit the type of the
\* field (above the maximum, negative for an unsigned field, outside the
\* range of int for is_body_compressed) makes the parse fail; no message
\* with a clamped, truncated or wrapped value is returned.
C13_OverflowFails ==
    (input.defect \in {"overflow", "negative"} /\ FirstParse) =>
        (last.st = "fail" /\ last.msg = NoMsg /\ parsed = <<>> /\ ops = <<>>)

C13_Witness ==
    /\ FirstParse
    /\ last.st = "fail"
    /\ input.defect = "overflow"
    /\ SubSeq(mem, 1, 8) = DOWNLOAD
    /\ exit_code = "EXIT_FAILURE"

\* C14: at most one write transaction is open at any time: a transaction is
\* open only between start_write and the commit or the failed apply of the
\* same upload changeset, never when a message is parsed, when a download
\* or ident message is handled, when the next changeset is started, or at
\* the end of the run.
C14_SingleWriter ==
    /\ db.txn => (pc \in {"apply", "commit"} /\ msg.type = "upload" /\ MoreChangesets(msg, ci))
    /\ pc \in {"loop", "dispatch", "done"} => ~db.txn

C14_Witness ==
    /\ pc = "apply"
    /\ db.txn
    /\ ci = 2
    /\ db.version = InitDB.version + 1

\* the instructions of the changesets committed so far, in commit order
RECURSIVE CommittedState(_)
CommittedState(os) ==
    IF Len(os) = 0 THEN <<>>
    ELSE CommittedState(SubSeq(os, 1, Len(os) - 1)) \o
         (IF os[Len(os)].op = "commit"
          THEN parsed[os[Len(os)].k].changesets[os[Len(os)].a.changeset].instructions
          ELSE <<>>)

\* the applier throws in this step
ApplyFailsNow == pc = "apply" /\ apply_throws(msg.changesets[ci].instructions)

\* C15: when applying a changeset fails, its transaction is aborted: no
\* version is committed for it and the database holds exactly what the
\* changesets applied before it committed.
C15_FailedApplyAborts ==
    [][ApplyFailsNow => /\ ~db'.txn
                        /\ db'.version = db.version
                        /\ db'.state = db.state
                        /\ db'.state = CommittedState(ops)
                        /\ db'.version = InitDB.version + Len(Commits(ops, Len(parsed)))
                        /\ ops' = ops]_vars

C15_Witness ==
    /\ pc = "done"
    /\ exit_code = "terminate"
    /\ msg.type = "upload"
    /\ ci = 2
    /\ apply_throws(msg.changesets[ci].instructions)
    /\ db.state = msg.changesets[1].instructions
    /\ db.version = InitDB.version + 1

\* the Changeset Decoder throws in this call of UploadMessage::parse
UploadDecodeFailsNow ==
    pc = "loop" /\ ~ViewEmpty(input_view) /\ last'.st = "decode_error" /\ last'.msg.type = "upload"

\* C16: a decode error inside UploadMessage::parse leaves the parser as an
\* exception, not as a failure return; the run terminates there and no
\* later message is processed.
C16_DecodeErrorTerminates ==
    [][ /\ UploadDecodeFailsNow => /\ pc' = "done"
                                   /\ exit_code' = "terminate"
                                   /\ ops' = ops /\ parsed' = parsed
                                   /\ history' = history /\ db' = db
        /\ (pc = "done" /\ last.st = "decode_error") => UNCHANGED vars ]_vars

C16_Witness ==
    /\ pc = "done"
    /\ exit_code = "terminate"
    /\ last.st = "decode_error"
    /\ last.msg.type = "upload"
    /\ Len(parsed) = 1
    /\ Len(ops) = 1
    /\ Len(input.msgs) = 3

\* a parsed message as the encoder takes it
Encodable(m) ==
    IF m.type = "ident" THEN Ident(m.session_ident, m.ident, m.salt)
    ELSE IF m.type = "download"
    THEN [type |-> "download", session_ident |-> m.session_ident, progress |-> m.progress,
          latest_server_version |-> m.latest_server_version,
          downloadable_bytes |-> m.downloadable_bytes,
          compressed |-> m.is_body_compressed, changesets |-> m.changesets]
    ELSE [type |-> "upload", session_ident |-> m.session_ident,
          upload_progress |-> m.upload_progress,
          locked_server_version |-> m.locked_server_version,
          compressed |-> m.is_body_compressed, changesets |-> m.changesets]

ReEncoded == EncStream([k \in 1..Len(parsed) |-> Encodable(parsed[k])])

\* C17: when a valid message stream has been parsed to its end, the
\* encodings of the parsed messages, concatenated in order, are the stream
\* byte for byte, and the parse ended at the end of the stream.
C17_RoundTrip ==
    (WellFormedInput /\ pc = "done") =>
        /\ ReEncoded = input.bytes
        /\ input_view.pos = FileLen + 1

\* the set_client_file_ident calls made so far, as positions in ops
IdentCalls == {i \in 1..Len(ops) : ops[i].op = "set_client_file_ident"}

\* the messages whose dispatch is over
Handled == IF pc = "dispatch" THEN Len(parsed) - 1 ELSE Len(parsed)

\* C18: each ident message leads to one set_client_file_ident call with
\* the (ident, salt) pair parsed from it, the history records the pair of
\* the last call, and a second call with the same pair leaves the recorded
\* identity as the first one did.
C18_IdentRecorded ==
    /\ \A i \in IdentCalls :
           /\ parsed[ops[i].k].type = "ident"
           /\ ops[i].a = [ident |-> parsed[ops[i].k].ident, salt |-> parsed[ops[i].k].salt]
    /\ \A k \in 1..Handled :
           parsed[k].type = "ident" => Cardinality({i \in IdentCalls : ops[i].k = k}) = 1
    /\ \A i \in IdentCalls :
           (\A j \in IdentCalls : j <= i) => history.client_file_ident = ops[i].a
    /\ IdentCalls = {} => history.client_file_ident = InitHistory.client_file_ident

C18_Witness ==
    /\ pc = "loop"
    /\ Cardinality(IdentCalls) = 2
    /\ Len(parsed) = 2
    /\ ops[1].a = ops[2].a
    /\ ops[1].a.ident # ops[1].a.salt
    /\ history.client_file_ident = ops[1].a

\* the view parse_header_line returned for the header line of the message
HeaderRest == IF last.msg.type = "ident" THEN last.rest ELSE last.msg.hdr_end

\* C20: parse_header_line on a view that starts with a well-formed header
\* line succeeds, assigns every field, and returns the bytes of the view
\* behind the end delimiter: the view it returns ends where the view it was
\* given ends.
C20_HeaderLineRemainder ==
    (input.kind \in {"valid", "padded"} /\ FirstParse) =>
        /\ last.msg # NoMsg
        /\ last.msg.nset = NFields(last.msg)
        /\ HeaderRest.pos + HeaderRest.len = last.from.pos + last.from.len

\* a required argument is missing on a command line that asks for no help
MissingArgument == args.parse = "ok" /\ ~args.help /\ (~args.realm \/ ~args.input)

\* every byte of the loaded file was consumed by a parsed message
WholeInputProcessed == loaded /\ input_view.pos = FileLen + 1

\* C19: with the realm path or the input path missing, main returns a
\* non-zero code before the database is created and before the input is
\* read; exit code 0 is returned only when the whole input was processed
\* or help was requested.
C19_ExitCodes ==
    /\ (MissingArgument /\ pc # "main") =>
           (pc = "returned" /\ exit_code = "EXIT_FAILURE" /\ ~created /\ ~loaded)
    /\ exit_code = "EXIT_SUCCESS" => (args.help \/ WholeInputProcessed)

\* the first message of the file has a well-formed header and an
\* uncompressed body that the bytes behind the header hold in full
UncompressedBodyFits ==
    /\ input.kind \in {"valid", "padded"}
    /\ FirstParse
    /\ input.msgs[1].type \in {"download", "upload"}
    /\ input.msgs[1].compressed = 0
    /\ last.msg.uncompressed_body_size <= Available

\* C21: for an uncompressed body whose uncompressed_size does not exceed the
\* bytes remaining after the header, MessageBody::parse yields as body the
\* first uncompressed_size bytes behind the header and as remainder all the
\* bytes behind them, allocates no decompression buffer, and the next
\* message is parsed from the first byte behind the body.
C21_UncompressedBody ==
    UncompressedBodyFits =>
        /\ last.msg.bodybuf = "input"
        /\ last.msg.uncompressed_body_buffer = <<>>
        /\ last.msg.body_view = View(last.msg.hdr_end.pos, last.msg.uncompressed_body_size)
        /\ last.st = "ok" =>
              /\ last.rest.pos = last.msg.hdr_end.pos + last.msg.uncompressed_body_size
              /\ last.rest.pos + last.rest.len = FileLen + 1

\* the entries of ops that belong to the k-th parsed message
OpsFor(k) == {i \in 1..Len(ops) : ops[i].k = k}

\* C22: every parsed message triggers the engine operation of its own
\* variant and no other: a download message exactly one
\* integrate_server_changesets call with its progress, downloadable_bytes
\* and whole changeset list (also an empty one) and no write transaction, an
\* ident message one set_client_file_ident call, an upload message only
\* write transactions.
C22_OwnVariantOnly ==
    /\ \A i \in 1..Len(ops) :
           /\ ops[i].k \in 1..Len(parsed)
           /\ parsed[ops[i].k].type = "download" =>
                 /\ ops[i].op = "integrate_server_changesets"
                 /\ ops[i].a.progress = parsed[ops[i].k].progress
                 /\ ops[i].a.downloadable_bytes = parsed[ops[i].k].downloadable_bytes
                 /\ ops[i].a.changesets = parsed[ops[i].k].changesets
           /\ parsed[ops[i].k].type = "ident" => ops[i].op = "set_client_file_ident"
           /\ parsed[ops[i].k].type = "upload" => ops[i].op = "commit"
    /\ \A k \in 1..Handled :
           parsed[k].type \in {"download", "ident"} => Cardinality(OpsFor(k)) = 1
    /\ db.version = InitDB.version + Cardinality({i \in 1..Len(ops) : ops[i].op = "commit"})
    /\ (db.txn \/ pc \in {"apply", "commit"}) => msg.type = "upload"

\* a download message without changesets was handed to the engine
C22_Witness ==
    /\ pc = "loop"
    /\ Len(parsed) = 1
    /\ parsed[1].type = "download"
    /\ parsed[1].changesets = <<>>
    /\ Len(ops) = 1
    /\ ops[1].op = "integrate_server_changesets"
    /\ ops[1].a.changesets = <<>>
    /\ db = InitDB

\* C23: after every successfully parsed message the remaining input view is
\* a proper suffix of the view before that parse and lies inside the loaded
\* input buffer: it starts behind the start of the old view, ends where the
\* old view ends, is strictly shorter, and holds no more bytes than the file
\* has behind the bytes consumed.
C23_RemainingViewShrinks ==
    last.st = "ok" =>
        /\ ProperView(last.rest)
        /\ last.rest.pos > last.from.pos
        /\ last.rest.pos + last.rest.len = last.from.pos + last.from.len
        /\ SizeLess(last.rest.len, last.from.len)
        /\ last.rest.len <= FileLen - (last.rest.pos - 1)

\* the bytes the payload views of message m may refer to: the decompression
\* buffer the message owns, or the loaded file
OwnedBytes(m) == IF m.bodybuf = "buffer" THEN Len(m.uncompressed_body_buffer) ELSE FileLen

C25_NothingBeforeWholeParse ==
    /\ (input.defect = "changeset" /\ FirstParse) =>
           /\ last.st \in {"fail", "decode_error"}
           /\ ops = <<>>
           /\ history = InitHistory
           /\ db = InitDB
    /\ last.st \notin {"ok", "none"} =>
           /\ pc = "done"
           /\ OpCalls = OpsOfMessages(parsed, 1)
    /\ \A i \in 1..Len(ops) : ops[i].k \in 1..Len(parsed)

\* the second changeset of a message is broken, the first one was parsed
\* and nothing was done with it
C25_Witness ==
    /\ input.defect = "changeset"
    /\ FirstParse
    /\ last.msg.type \in {"download", "upload"}
    /\ Len(last.msg.changesets) = 1
    /\ last.st \in {"fail", "decode_error"}
    /\ pc = "done"
    /\ ops = <<>>

\* the first argument behind the program name
FirstArg == IF Len(argv) >= 2 THEN argv[2] ELSE <<>>

\* C26: parse_arguments marks a flag of to_parse as found when the command
\* line starts with its long form "--<name>" or its short form "-<c>",
\* wherever the flag stands in to_parse; a flag that expects a value gets
\* the text behind '=' or the next argument.
C26_FlagsFound ==
    cli_pc \in {"returned", "thrown"} =>
        \A k \in 1..Len(to_parse) :
            /\ (FirstArg \in {LongForm(to_parse[k]), ShortForm(to_parse[k])}
                    /\ (to_parse[k].expects_value => Len(argv) >= 3))
               => /\ to_parse[k].m_found
                  /\ to_parse[k].expects_value => to_parse[k].m_value = argv[3]
            /\ (to_parse[k].expects_value
                    /\ FirstArg \in {LongForm(to_parse[k]) \o <<EQ>> \o Path,
                                     ShortForm(to_parse[k]) \o <<EQ>> \o Path})
               => /\ to_parse[k].m_found
                  /\ to_parse[k].m_value = Path

\* C27: in every interleaving of notify, bind_to_execution_context, the
\* callbacks the event loop runs and the release of the Realm, Realm::notify
\* is called only on a live Realm and only when the notifier is bound, and
\* no more often than notify was called on the bound notifier; notify on an
\* unbound notifier leaves nothing behind, and an EventLoopSignal is made
\* for a notifier at most once.
C27_NotifyOnlyLiveAndBound ==
    /\ \A i \in 1..Len(realm_notify) : realm_notify[i].alive /\ realm_notify[i].bound
    /\ Len(realm_notify) <= Cardinality({i \in 1..Len(notify_calls) : notify_calls[i]})
    /\ callback = "locked" => realm_refs > 0
    /\ m_signal = "null" => (~signalled /\ callback = "idle" /\ realm_notify = <<>>)
    /\ binds <= 1

\* notify was called before and after the notifier was bound, one callback
\* reached the Realm, and the Realm is destroyed
C27_Witness ==
    /\ notify_calls = <<FALSE, TRUE, TRUE>>
    /\ m_execution_context \in Contexts
    /\ Len(realm_notify) = 1
    /\ ~owner
    /\ realm_refs = 0
    /\ ~signalled
    /\ callback = "idle"

====
